---- MODULE Spec2Model ----
(***************************************************************************)
(* The morphing engine of the scene: the toggle (App), the per-population  *)
(* progress scalars damped toward the goal each frame (Foliage,            *)
(* BottomParticles, BottomGifts, OrnamentGroup, TopStar) and the           *)
(* transforms / uniforms each frame writes.                                *)
(*                                                                         *)
(* Numbers.  The program computes in IEEE doubles; the model computes in   *)
(* fixed point, truncating toward zero:                                    *)
(*   - progress, damping velocity, easing factor: multiples of 1/PUnit;    *)
(*   - seconds (deltaTime, elapsedTime): multiples of 1/TUnit;             *)
(*   - lengths, angles, sines, scales: multiples of 1/GUnit.               *)
(* NaN is a value of its own, propagated the way IEEE arithmetic and the   *)
(* JavaScript comparisons propagate it (every comparison with NaN is       *)
(* false).                                                                 *)
(***************************************************************************)
EXTENDS Integers, Sequences, FiniteSets, TLC

\* ------------------------------------------------------------------------
\* Fixed-point arithmetic
\* ------------------------------------------------------------------------

PK == 100 * 100
GK == 10 * 10
\* PUnit = PK^2, GUnit = GK^2: products are split at PK (GK) to stay in 32 bits.
PUnit == PK * PK
GUnit == GK * GK
TUnit == 100 * 100

\* The one non-finite value (a sentinel outside every finite range used).
NaN == 0 - 2000000000

IsNaN(x) == x = NaN

Abs(x) == IF x < 0 THEN 0 - x ELSE x

\* Math.abs: NaN for NaN.
AbsF(x) == IF x = NaN THEN NaN ELSE Abs(x)

Sgn(x) == IF x < 0 THEN 0 - 1 ELSE 1

\* floor(a * b / (k * k)) for a, b >= 0, without an intermediate above 2^31.
MulNat(a, b, k) ==
    LET a1 == a \div k
        a0 == a % k
        b1 == b \div k
        b0 == b % k
    IN  a1 * b1 + ((a1 * b0 + a0 * b1 + ((a0 * b0) \div k)) \div k)

\* a * b / (k * k), truncated toward zero; NaN if either operand is NaN.
Mul(a, b, k) ==
    IF IsNaN(a) \/ IsNaN(b) THEN NaN
    ELSE Sgn(a) * Sgn(b) * MulNat(Abs(a), Abs(b), k)

\* floor(a * b / c) for a, b >= 0 and c > 0 with (c - 1) * b below 2^31.
MulDivNat(a, b, c) == (a \div c) * b + (((a % c) * b) \div c)

\* a * b / c truncated toward zero (c > 0); NaN if a or b is NaN.
MulDiv(a, b, c) ==
    IF IsNaN(a) \/ IsNaN(b) THEN NaN
    ELSE Sgn(a) * Sgn(b) * MulDivNat(Abs(a), Abs(b), c)

\* (k*k)^2 / d for a k*k-scaled d >= k*k, i.e. the k*k-scaled 1 / d, without
\* an intermediate above 2^31: with d = d1 * k + d0 and e = d0 / (d1 * k),
\* 1 / d = (1 - e + e^2 - ...) / (d1 * k); terms from e^3 on are below the
\* last digit.
Recip(d, k) ==
    LET d1 == d \div k
        d0 == d % k
        a  == MulDivNat(k * k, k, d1)
        t1 == (((a \div k) * d0) + (((a % k) * d0) \div k)) \div d1
        t2 == (t1 * d0) \div (d1 * k)
    IN  a - t1 + t2

\* Products of two PUnit-scaled numbers, of a G-scaled by a P-scaled number
\* (result G-scaled), and of two G-scaled numbers.
MulP(a, b) == Mul(a, b, PK)
MulG(a, b) == Mul(a, b, GK)

\* IEEE addition and subtraction: NaN if either operand is NaN.
Add(a, b) == IF IsNaN(a) \/ IsNaN(b) THEN NaN ELSE a + b
Sub(a, b) == IF IsNaN(a) \/ IsNaN(b) THEN NaN ELSE a - b

\* JavaScript comparisons: false whenever an operand is NaN.
Gt(a, b) == ~IsNaN(a) /\ ~IsNaN(b) /\ a > b
Lt(a, b) == ~IsNaN(a) /\ ~IsNaN(b) /\ a < b
Le(a, b) == ~IsNaN(a) /\ ~IsNaN(b) /\ a <= b

\* A number of seconds times a U-scaled number (U-scaled result).
MulT(a, dt) == MulDiv(a, dt, TUnit)

\* ------------------------------------------------------------------------
\* damp of maath/easing, the smoothing step every population calls
\* (imported at BottomGifts.tsx:6, Foliage.tsx:6, BottomParticles.tsx:6 and
\* Ornaments.tsx:6).  It is Unity's SmoothDamp: next to the damped value it
\* keeps a velocity (current.__damp.velocity_<prop>), initially 0.
\* ------------------------------------------------------------------------

\* easing.exp: t |-> 1 / (1 + t + 0.48 t^2 + 0.235 t^3), on k*k-scaled numbers.
\* The denominator is computed halved (h = d / 2, and 1 / d = (1 / h) / 2) to
\* stay within 32 bits for t up to 4.
EaseExp(x, k) ==
    IF IsNaN(x) THEN NaN
    ELSE LET u  == k * k
             x2 == Mul(x, x, k)
             h  == (u + x) \div 2 + MulDiv(x2, 24, 100)
                     + Mul(MulDiv(x2, 235, 2000), x, k)
         IN  Recip(h, k) \div 2

\* 2 / smoothTime, smoothTime given in thousandths (Math.max(0.0001, .) is
\* the identity for the time constants the program passes).
Omega(smoothMilli, k) == MulDiv(2 * k * k, 1000, smoothMilli)

\* eps = 0.001, the end-of-animation precision (damp's default).
DampEps(k) == (k * k) \div 1000

\* (output - originalTo) / delta with output = originalTo: 0 / delta.
ZeroOver(delta) == IF IsNaN(delta) \/ delta = 0 THEN NaN ELSE 0

\* A variant of DampStep: the decay factor easing(omega * delta) left out.
DampStepUndecayed(cur, vel, target, smoothMilli, delta, k) ==
    LET omega  == Omega(smoothMilli, k)
        change == Sub(cur, target)
        temp   == MulT(Add(vel, Mul(omega, change, k)), delta)
        vel1   == Sub(vel, Mul(omega, temp, k))
        out    == Add(target, Add(change, temp))
    IN  IF Gt(Sub(target, cur), 0) = Gt(out, target)
        THEN [cur |-> target, vel |-> ZeroOver(delta)]
        ELSE [cur |-> out, vel |-> vel1]

\* The smoothing step proper, taken when current is further than eps from the
\* target.  maxSpeed is Infinity, so the clamp of `change` is the identity.
\* The last test ("prevent overshooting") compares with JavaScript's ===.
DampStep(cur, vel, target, smoothMilli, delta, k) ==
    LET omega  == Omega(smoothMilli, k)
        t      == EaseExp(MulT(omega, delta), k)
        change == Sub(cur, target)
        temp   == MulT(Add(vel, Mul(omega, change, k)), delta)
        vel1   == Mul(Sub(vel, Mul(omega, temp, k)), t, k)
        out    == Add(target, Mul(Add(change, temp), t, k))
    IN  IF Gt(Sub(target, cur), 0) = Gt(out, target)
        THEN [cur |-> target, vel |-> ZeroOver(delta)]
        ELSE [cur |-> out, vel |-> vel1]

\* A variant of Damp: without the end-of-animation precision eps.
DampWithoutEps(cur, vel, target, smoothMilli, delta, k) ==
    DampStep(cur, vel, target, smoothMilli, delta, k)

\* damp(current, prop, target, smoothTime, delta): the new value and velocity.
\* Within eps of the target the value is set to the target and the velocity
\* is left as it was.
Damp(cur, vel, target, smoothMilli, delta, k) ==
    IF Le(AbsF(Sub(cur, target)), DampEps(k))
    THEN [cur |-> target, vel |-> vel]
    ELSE DampStep(cur, vel, target, smoothMilli, delta, k)

\* ------------------------------------------------------------------------
\* Math.sin / Math.cos and vectors, on GUnit-scaled numbers
\* ------------------------------------------------------------------------

\* pi and 2 pi, and pi^2 per GUnit.
PiG    == 31416
TwoPiG == 2 * PiG
PiSqG  == (PiG * PiG) \div GUnit

\* sin on [0, pi] by Bhaskara's rational approximation
\* 16 x (pi - x) / (5 pi^2 - 4 x (pi - x)): exact at 0, pi/6, pi/2, 5pi/6 and
\* pi, within 0.002 elsewhere.
SinHalf(x) ==
    LET q   == (x * (PiG - x)) \div GUnit
        den == 5 * PiSqG - 4 * q
    IN  MulDivNat(4 * q * GUnit, 4, den)

Sin(x) ==
    IF IsNaN(x) THEN NaN
    ELSE LET r == x % TwoPiG
         IN  IF r <= PiG THEN SinHalf(r) ELSE 0 - SinHalf(r - PiG)

Cos(x) == IF IsNaN(x) THEN NaN ELSE Sin(x + (PiG \div 2))

\* a * b for a GUnit-scaled a and a PUnit-scaled b (GUnit-scaled result).
MulGP(a, b) == Mul(a, b, PK)

\* Vector3.lerpVectors(v1, v2, alpha): v1 + (v2 - v1) * alpha per component.
LerpVectors(v1, v2, alpha) ==
    [c \in 1..3 |-> Add(v1[c], MulGP(v2[c] - v1[c], alpha))]

\* Whether a vector or a transform holds a NaN.
VecHasNaN(v) == \E c \in 1..3 : IsNaN(v[c])

\* ------------------------------------------------------------------------
\* The toggle and the populations
\* ------------------------------------------------------------------------

TREE_SHAPE == "TREE_SHAPE"
SCATTERED  == "SCATTERED"
TreeState  == {TREE_SHAPE, SCATTERED}

\* The populations: the two shader populations, the layered gift boxes, the
\* five OrnamentGroup instances Ornaments mounts (two sphere groups, the box
\* group, which has extraLayers, the star group and the diamond group) and
\* the singleton tree topper.
Foliage   == "Foliage"
Particles == "BottomParticles"
Gifts     == "BottomGifts"
OrnSphereSilver == "OrnamentGroup:sphereSilver"
OrnSpherePink   == "OrnamentGroup:spherePink"
OrnBox    == "OrnamentGroup:box"
OrnStar   == "OrnamentGroup:star"
OrnDiamond == "OrnamentGroup:diamond"
TopStar   == "TopStar"

ShaderPops    == {Foliage, Particles}
OrnamentPops  == {OrnSphereSilver, OrnSpherePink, OrnBox, OrnStar, OrnDiamond}
InstancedPops == {Gifts} \cup OrnamentPops
RigidPops     == InstancedPops \cup {TopStar}
Pops          == ShaderPops \cup RigidPops

\* A variant of SmoothTime: TopStar given BottomGifts' time constant.
SmoothTimeStarAsGifts(p) ==
    CASE p = Foliage        -> 1500
      [] p = Particles      -> 1200
      [] p = Gifts          -> 1000
      [] p \in OrnamentPops -> 1200
      [] p = TopStar        -> 1000

\* The smoothTime each population passes to damp, in thousandths.
SmoothTime(p) ==
    CASE p = Foliage        -> 1500
      [] p = Particles      -> 1200
      [] p = Gifts          -> 1000
      [] p \in OrnamentPops -> 1200
      [] p = TopStar        -> 1200

\* A variant of InitialProgress: progress initialised to the goal of the
\* initial toggle state.
InitialProgressAtGoal == PUnit

\* useRef(0) / uProgress: { value: 0 }: the progress every population starts at.
InitialProgress == 0

\* A variant of Goal with the two ends exchanged.
GoalSwapped(state) == IF state = TREE_SHAPE THEN 0 ELSE PUnit

\* const goal = state === TreeState.TREE_SHAPE ? 1 : 0
Goal(state) == IF state = TREE_SHAPE THEN PUnit ELSE 0

\* App.toggleState's updater.
Flip(prev) == IF prev = TREE_SHAPE THEN SCATTERED ELSE TREE_SHAPE

\* ------------------------------------------------------------------------
\* Bounds of the model
\* ------------------------------------------------------------------------

\* Entities per population (the program's counts are GIFT_COUNT = 12,
\* SPHERE_SILVER_COUNT = 130, SPHERE_PINK_COUNT = 80, BOX_COUNT = 45,
\* STAR_COUNT = 150, DIAMOND_COUNT = 60, COUNT = 15000 and COUNT = 400).
EntityCount == 2
\* Frames with a positive finite deltaTime in one run: frames of TinyDelta
\* and frames of BigDelta.
MaxTinyFrames == 1
MaxBigFrames  == 4
\* Clicks of the toggle button in one run.
MaxToggles == 2
\* Frames with a non-finite deltaTime in one run; they are the last frames of
\* the run (what finite frames do after one is not explored).
MaxNaNFrames == 1

\* The finite deltaTime values a frame may carry: 0, 0.5 ms (a fast display)
\* and 2 s (a stalled one).
TinyDelta == 5
BigDelta  == 2 * TUnit
Deltas    == {0, TinyDelta, BigDelta}

\* ------------------------------------------------------------------------
\* Construction of the entity data (the useMemo blocks)
\* ------------------------------------------------------------------------

\* The n-th value Math.random() returns during construction, in [0, 1): a
\* fixed sequence, so that a run of the model is reproducible.
Random(n) == (n * 3571 + 911) % GUnit

\* Math.sqrt and Math.cbrt on [0, 1), and Math.acos on [-1, 1].
Sqrt(u) == CHOOSE r \in 0..GUnit : r * r <= u * GUnit /\ (r + 1) * (r + 1) > u * GUnit
Cbrt(u) == 10 * (CHOOSE r \in 0..1000 : r * r * r <= u * 100000
                                        /\ (r + 1) * (r + 1) * (r + 1) > u * 100000)
Acos(v) == CHOOSE a \in 0..PiG : Cos(a) <= v /\ (a = 0 \/ Cos(a - 1) > v)

TREE_HEIGHT      == 14
TREE_RADIUS_BASE == 55000
SCATTER_RADIUS   == 25

\* getTreePosition(), drawing Math.random() values n, n+1, n+2.
GetTreePosition(n) ==
    LET y             == Random(n) * TREE_HEIGHT - (TREE_HEIGHT * GUnit) \div 2
        progressUp    == (y + (TREE_HEIGHT * GUnit) \div 2) \div TREE_HEIGHT
        currentRadius == MulG(TREE_RADIUS_BASE, GUnit - progressUp)
        angle         == MulG(Random(n + 1), TwoPiG)
        r             == MulG(Sqrt(Random(n + 2)), currentRadius)
    IN  <<MulG(r, Cos(angle)), y, MulG(r, Sin(angle))>>

\* getScatterPosition(), drawing Math.random() values n, n+1, n+2.
GetScatterPosition(n) ==
    LET r     == Cbrt(Random(n)) * SCATTER_RADIUS
        theta == MulG(Random(n + 1), TwoPiG)
        phi   == Acos(2 * Random(n + 2) - GUnit)
    IN  <<MulG(MulG(r, Sin(phi)), Cos(theta)),
          MulG(MulG(r, Sin(phi)), Sin(theta)),
          MulG(r, Cos(phi))>>

\* BottomGifts' data: one gift.
GiftItem(n) ==
    LET angle == MulG(Random(n), TwoPiG)
        r     == 30000 + Random(n + 1) * 4
        s     == 4000 + MulG(Random(n + 2), 4000)
    IN  [treePos    |-> <<MulG(Cos(angle), r), (0 - 70000) + s \div 2, MulG(Sin(angle), r)>>,
         scatterPos |-> GetScatterPosition(n + 3),
         rotationY  |-> MulG(Random(n + 6), TwoPiG),
         scale      |-> s,
         phase      |-> MulG(Random(n + 10), TwoPiG),
         speed      |-> 5000 + Random(n + 11)]

\* OrnamentGroup's data: one ornament of a group of the given type, drawing
\* Math.random() values from n on.  A sphere draws one value more than the
\* other types, first of all, for its scaleBase.
OrnamentItem(type, n) ==
    LET scaleBase == CASE type = "box"     -> 4500
                       [] type = "sphere"  -> IF Random(n) > 8000 THEN 4500 ELSE 2500
                       [] type = "star"    -> 1500
                       [] type = "diamond" -> 3500
                       [] OTHER            -> 2500
        weight    == CASE type = "box"     -> 2000
                       [] type = "sphere"  -> 5000
                       [] type = "star"    -> 9000
                       [] type = "diamond" -> 6000
                       [] OTHER            -> GUnit
        m         == IF type = "sphere" THEN n + 1 ELSE n
        scaleVar  == MulG(Random(m), 1500)
    IN  [treePos    |-> GetTreePosition(m + 1),
         scatterPos |-> GetScatterPosition(m + 4),
         rotation   |-> <<MulG(Random(m + 7), PiG), MulG(Random(m + 8), PiG), 0>>,
         scale      |-> scaleBase + scaleVar,
         speed      |-> MulG(2000 + MulG(Random(m + 9), 8000), GUnit + weight),
         phase      |-> MulG(Random(m + 10), TwoPiG)]

\* TopStar's data.
StarItem(n) ==
    [treePos |-> <<0, 78000, 0>>, scatterPos |-> GetScatterPosition(n)]

\* Foliage's attribute buffers, per entity.
FoliageItem(n) ==
    [treePos    |-> GetTreePosition(n),
     scatterPos |-> GetScatterPosition(n + 3),
     random     |-> Random(n + 6)]

\* BottomParticles' attribute buffers, per entity.
ParticleItem(n) ==
    LET radius == MulG(Sqrt(Random(n)), 65000)
        angle  == MulG(Random(n + 1), TwoPiG)
    IN  [treePos    |-> <<MulG(Cos(angle), radius), (0 - 70000) + Random(n + 2),
                          MulG(Sin(angle), radius)>>,
         scatterPos |-> GetScatterPosition(n + 3),
         random     |-> Random(n + 6),
         speed      |-> 5000 + Random(n + 7) \div 2,
         scale      |-> 5000 + MulG(Random(n + 8), 8000)]

\* The entity data of population p constructed with `count` entities (the
\* loops run for i < count: no entity for a count of 0 or less); each
\* population draws from its own stretch of the random sequence.
ConstructCount(p, count) ==
    CASE p = Foliage   -> [i \in 1..count |-> FoliageItem(100 + 7 * i)]
      [] p = Particles -> [i \in 1..count |-> ParticleItem(200 + 9 * i)]
      [] p = Gifts     -> [i \in 1..count |-> GiftItem(300 + 12 * i)]
      [] p = OrnSphereSilver -> [i \in 1..count |-> OrnamentItem("sphere", 700 + 12 * i)]
      [] p = OrnSpherePink   -> [i \in 1..count |-> OrnamentItem("sphere", 800 + 12 * i)]
      [] p = OrnBox    -> [i \in 1..count |-> OrnamentItem("box", 400 + 11 * i)]
      [] p = OrnStar   -> [i \in 1..count |-> OrnamentItem("star", 500 + 11 * i)]
      [] p = OrnDiamond -> [i \in 1..count |-> OrnamentItem("diamond", 900 + 11 * i)]
      [] p = TopStar   -> [i \in 1..1 |-> StarItem(600)]

\* The entity data of population p as the scene constructs it.
Construct(p) == ConstructCount(p, EntityCount)

\* ------------------------------------------------------------------------
\* State
\* ------------------------------------------------------------------------

\* The meshes of each rigid population, each behind a React ref.
Layers(p) ==
    CASE p = Gifts   -> {"mesh", "ribbon1", "ribbon2"}
      [] p = OrnBox  -> {"mesh", "extra0", "extra1"}
      [] p \in OrnamentPops \ {OrnBox} -> {"mesh"}
      [] p = TopStar -> {"mesh"}

AllRefs == {<<p, l>> : p \in RigidPops, l \in {"mesh", "ribbon1", "ribbon2", "extra0", "extra1"}}
             \cap UNION {{<<p, l>> : l \in Layers(p)} : p \in RigidPops}

VARIABLES
    treeState,    \* App's React state, handed down as the `state` prop
    refs,         \* the mesh refs that are attached (ref.current is not null)
    elapsedTime,  \* stateThree.clock.elapsedTime
    toggles,      \* clicks of the toggle button so far (bounds the run)
    nanFrames,    \* frames with a non-finite deltaTime so far (bounds the run)
    data,         \* per population: the entity data built at construction
    progress,     \* per population: targetProgress.current / uProgress.value
    velocity,     \* per population: __damp.velocity_current / velocity_value
    uTime,        \* per shader population: the uTime uniform
    matrix,       \* per instanced population and layer: the instance matrices
    star          \* TopStar's mesh: position, rotation and rotation velocities

vars == <<treeState, refs, elapsedTime, toggles, nanFrames,
          data, progress, velocity, uTime, matrix, star>>

\* An instance matrix as the (position, rotation, scale) it was composed from.
Transform(pos, rot, scale) == [position |-> pos, rotation |-> rot, scale |-> scale]

\* A fresh InstancedMesh's instanceMatrix is all zeros.
ZeroTransform == Transform(<<0, 0, 0>>, <<0, 0, 0>>, 0)

TransformHasNaN(m) ==
    VecHasNaN(m.position) \/ VecHasNaN(m.rotation) \/ IsNaN(m.scale)

\* ------------------------------------------------------------------------
\* The useFrame callbacks
\* ------------------------------------------------------------------------

\* A variant of Runs: BottomGifts guarded by its main mesh alone.
RunsOnMainMesh(p, attached) ==
    CASE p \in ShaderPops -> TRUE
      [] OTHER            -> <<p, "mesh">> \in attached

\* Whether population p's callback gets past its ref guard: BottomGifts needs
\* its three meshes, OrnamentGroup and TopStar their main mesh; the shader
\* populations have no guard.
Runs(p, attached) ==
    CASE p \in ShaderPops -> TRUE
      [] p = Gifts        -> \A l \in Layers(Gifts) : <<Gifts, l>> \in attached
      [] OTHER            -> <<p, "mesh">> \in attached

\* A variant of DampProgress: plain exponential smoothing without damp's
\* overshoot guard, current += (goal - current) * delta / smoothTime.
DampProgressEuler(p, cur, vel, state, delta) ==
    [cur |-> Add(cur, MulDiv(MulT(Sub(Goal(state), cur), delta), 1000, SmoothTime(p))),
     vel |-> vel]

\* A variant of DampProgress: the goal's ternary the wrong way round.
DampProgressInverted(p, cur, vel, state, delta) ==
    Damp(cur, vel, Goal(IF state = TREE_SHAPE THEN SCATTERED ELSE TREE_SHAPE),
         SmoothTime(p), delta, PK)

\* The damping step of p's callback: damp(ref, prop, goal, smoothTime, delta).
DampProgress(p, cur, vel, state, delta) ==
    Damp(cur, vel, Goal(state), SmoothTime(p), delta, PK)

\* A variant of OneMinus: the animation weight not faded with progress.
OneMinusDropped(t) == IF IsNaN(t) THEN NaN ELSE PUnit

\* 1 - t, and t < c for a threshold c in hundredths.
OneMinus(t) == Sub(PUnit, t)
Below(t, hundredths) == Lt(t, (PUnit \div 100) * hundredths)

\* Variants of the settle thresholds: BottomGifts settling only at 1, and
\* TopStar settling at BottomGifts' threshold.
GiftSettleLate    == 99 + 1
StarSettleAsGifts == 90 + 9

\* The settle thresholds: t < 0.99 in BottomGifts, t < 0.9 in TopStar.
GiftSettle == 99
StarSettle == 90

\* A variant of OrnamentPulse: the ornaments breathing as the gifts do.
OrnamentPulseAsGifts(item, time) ==
    MulG(item.scale, 9500 + MulDiv(Sin(time + item.phase), 5, 100))

\* The scale pulses: item.scale * (0.95 + 0.05 * Math.sin(time + item.phase))
\* in BottomGifts, item.scale * (0.85 + 0.15 * Math.sin(time * 2 + item.phase))
\* in OrnamentGroup.
GiftPulse(item, time) ==
    MulG(item.scale, 9500 + MulDiv(Sin(time + item.phase), 5, 100))
OrnamentPulse(item, time) ==
    MulG(item.scale, 8500 + MulDiv(Sin(2 * time + item.phase), 15, 100))

\* BottomGifts: the transform of one gift at progress t and clock time.
GiftTransform(item, t, time) ==
    LET base     == LerpVectors(item.scatterPos, item.treePos, t)
        floatAmp == MulGP(2 * GUnit, OneMinus(t))
        tumble   == MulGP(MulG(time, MulDiv(item.speed, 25, 100)), OneMinus(t))
        breathe  == GiftPulse(item, time)
    IN  IF Below(t, GiftSettle)
        THEN Transform(
               <<Add(base[1], MulDiv(MulG(Cos(MulG(MulDiv(time, 5, 10), item.speed) + item.phase),
                                          floatAmp), 5, 10)),
                 Add(base[2], MulG(Sin(MulG(time, item.speed) + item.phase), floatAmp)),
                 base[3]>>,
               <<tumble, Add(tumble, item.rotationY), tumble>>,
               breathe)
        ELSE Transform(base, <<0, item.rotationY, 0>>, breathe)

\* OrnamentGroup: the transform of one ornament of a group of the given type.
OrnamentTransform(type, item, t, time) ==
    LET base      == LerpVectors(item.scatterPos, item.treePos, t)
        floatAmp  == MulGP(IF type = "star" THEN 3 * GUnit ELSE 15000, OneMinus(t))
        yOffset   == MulG(Sin(MulG(time, item.speed) + item.phase), floatAmp)
        xOffset   == MulDiv(MulG(Cos(MulDiv(MulG(time, item.speed), 5, 10) + item.phase),
                                 floatAmp), 5, 10)
        spinSpeed == IF type \in {"diamond", "star"} THEN 5000 ELSE 1000
    IN  Transform(
          <<Add(base[1], xOffset), Add(base[2], yOffset), base[3]>>,
          <<Add(item.rotation[1],
                MulG(MulGP(MulDiv(time, 2, 10), OneMinus(t)), item.speed)),
            item.rotation[2] + MulG(MulG(time, spinSpeed), item.speed),
            Add(item.rotation[3], MulGP(MulDiv(time, 1, 10), OneMinus(t)))>>,
          OrnamentPulse(item, time))

OrnamentType(p) ==
    CASE p \in {OrnSphereSilver, OrnSpherePink} -> "sphere"
      [] p = OrnBox     -> "box"
      [] p = OrnStar    -> "star"
      [] p = OrnDiamond -> "diamond"

\* The transform an instanced population's frame computes for entity i.
EntityTransform(p, item, t, time) ==
    IF p = Gifts THEN GiftTransform(item, t, time)
    ELSE OrnamentTransform(OrnamentType(p), item, t, time)

\* A variant of WrittenLayers: only the main mesh written.
WrittenLayersMainOnly(p, attached) ==
    IF <<p, "mesh">> \in attached THEN <<"mesh">> ELSE <<>>

\* The meshes of an instanced population in the order its callback writes
\* them, and those of them that are attached (BottomGifts' callback runs only
\* with all three; OrnamentGroup skips an extra layer whose ref is null).
LayerOrder(p) ==
    CASE p = Gifts   -> <<"mesh", "ribbon1", "ribbon2">>
      [] p = OrnBox  -> <<"mesh", "extra0", "extra1">>
      [] p \in OrnamentPops \ {OrnBox} -> <<"mesh">>
WrittenLayers(p, attached) ==
    LET IsAttached(l) == <<p, l>> \in attached
    IN  SelectSeq(LayerOrder(p), IsAttached)

\* A variant of FrameOps: every layer marked dirty inside the loop, after each
\* entity's setMatrixAt.
RECURSIVE FrameOpsMarkingPerEntity(_, _, _)
FrameOpsMarkingPerEntity(layers, count, n) ==
    IF n > count THEN <<>>
    ELSE [k \in 1..Len(layers) |-> [op |-> "setMatrixAt", layer |-> layers[k], index |-> n]]
         \o [k \in 1..Len(layers) |-> [op |-> "needsUpdate", layer |-> layers[k], index |-> 0]]
         \o FrameOpsMarkingPerEntity(layers, count, n + 1)

\* The buffer operations of an instanced population's callback from entity n
\* on, in program order: per entity one setMatrixAt on every written layer
\* (the forEach), and after the loop needsUpdate = true on every written layer.
RECURSIVE FrameOps(_, _, _)
FrameOps(layers, count, n) ==
    IF n > count
    THEN [k \in 1..Len(layers) |-> [op |-> "needsUpdate", layer |-> layers[k], index |-> 0]]
    ELSE [k \in 1..Len(layers) |-> [op |-> "setMatrixAt", layer |-> layers[k], index |-> n]]
         \o FrameOps(layers, count, n + 1)

\* The instance matrices after the operations ops, each setMatrixAt storing the
\* transform tr[index] computed for its entity.
RECURSIVE Replay(_, _, _)
Replay(ops, tr, buffers) ==
    IF ops = <<>> THEN buffers
    ELSE LET o == Head(ops)
         IN  Replay(Tail(ops), tr,
                    IF o.op = "setMatrixAt"
                    THEN [buffers EXCEPT ![o.layer][o.index] = tr[o.index]]
                    ELSE buffers)

\* The instance matrices of population p after its frame: every written
\* layer gets the entity's transform at the entity's index (setMatrixAt).
WriteMatrices(p, old, items, attached, t, time) ==
    LET tr == [i \in DOMAIN items |-> EntityTransform(p, items[i], t, time)]
    IN  Replay(FrameOps(WrittenLayers(p, attached), Len(items), 1), tr, old)

\* A variant of FrameItems: the interpolation done in place,
\* item.scatterPos.lerp(item.treePos, t).
FrameItemsLerpedInPlace(p, items, t) ==
    [i \in DOMAIN items |->
        [items[i] EXCEPT !.scatterPos = LerpVectors(@, items[i].treePos, t)]]

\* The entity data after a callback ran: the callbacks read the items and
\* write only their scratch objects (currentPos, dummy), the meshes' buffers
\* and their progress.
FrameItems(p, items, t) == items

\* TopStar: the mesh after its frame.
StarFrame(old, item, t, time, delta) ==
    LET rotY == Add(old.rotation[2], MulDiv(delta, 8, 10))
        dx   == Damp(old.rotation[1], old.velX, 0, 250, delta, GK)
        dz   == Damp(old.rotation[3], old.velZ, 0, 250, delta, GK)
    IN  IF Below(t, StarSettle)
        THEN [position |-> LerpVectors(item.scatterPos, item.treePos, t),
              rotation |-> <<MulGP(Sin(MulDiv(time, 5, 10)), OneMinus(t)),
                             rotY,
                             MulGP(Cos(MulDiv(time, 3, 10)), OneMinus(t))>>,
              velX |-> old.velX, velZ |-> old.velZ]
        ELSE [position |-> LerpVectors(item.scatterPos, item.treePos, t),
              rotation |-> <<dx.cur, rotY, dz.cur>>,
              velX |-> dx.vel, velZ |-> dz.vel]

\* ------------------------------------------------------------------------
\* The vertex shaders (the position the GPU computes for a point each frame
\* from the attribute buffers and the uProgress / uTime uniforms)
\* ------------------------------------------------------------------------

\* GLSL mix(x, y, a) = x * (1 - a) + y * a.
Mix(x, y, a) == Add(MulGP(x, Sub(PUnit, a)), MulGP(y, a))
MixVec(v1, v2, a) == [c \in 1..3 |-> Mix(v1[c], v2[c], a)]

\* GLSL pow(b, 3.0): undefined for b < 0, where the result depends on the
\* build: |b|^3 (pow computed from the logarithm of |b|, as ANGLE on
\* SwiftShader does), NaN (from the logarithm of b itself) or the real cube
\* (pow with a constant exponent folded into products).
Pow3(b) ==
    IF IsNaN(b) THEN {NaN}
    ELSE IF b < 0 THEN {MulP(MulP(Abs(b), Abs(b)), Abs(b)), NaN, MulP(MulP(b, b), b)}
    ELSE {MulP(MulP(b, b), b)}

\* easeInOutCubic(x): the results the shader may compute.
EaseInOutCubic(x) ==
    IF Lt(x, PUnit \div 2)
    THEN {4 * MulP(MulP(x, x), x)}
    ELSE {Sub(PUnit, MulDiv(c, 1, 2)) : c \in Pow3(Sub(2 * PUnit, Add(x, x)))}

\* FoliageShader.vertexShader: pos for eased progress t at uTime = time.
FoliageVertex(item, t, time) ==
    LET pos       == MixVec(item.scatterPos, item.treePos, t)
        noiseFreq == Mix(5000, 25000, t)
        noiseAmp  == Mix(8000, 1500, t)
        jitter    == MulDiv(Sin(time * 5 + item.random * 100), 5, 100)
        wind      == MulG(time, noiseFreq)
        seed      == item.random * 10
    IN  <<Add(pos[1], MulG(Sin(Add(wind, seed)), noiseAmp)),
          Add(pos[2], Add(MulG(Cos(Add(MulDiv(wind, 8, 10), seed)), noiseAmp), jitter)),
          Add(pos[3], MulG(Sin(Add(MulDiv(wind, 12, 10), seed)), noiseAmp))>>

\* StarParticleShader.vertexShader: finalPos for eased progress t.
ParticleVertex(item, t, time) ==
    LET rise == (2 * MulG(time, item.speed) + item.random * 10) % (4 * GUnit)
        animatedBasePos == <<item.treePos[1], item.treePos[2] + rise, item.treePos[3]>>
    IN  MixVec(item.scatterPos, animatedBasePos, t)

\* The positions the shader of population p may compute for one point.
ShaderVertices(p, item, uProgress, time) ==
    {IF p = Foliage THEN FoliageVertex(item, t, time) ELSE ParticleVertex(item, t, time) :
        t \in EaseInOutCubic(uProgress)}

\* ------------------------------------------------------------------------
\* The state machine
\* ------------------------------------------------------------------------

\* The state after construction, with the mesh refs in `attached` attached
\* and the star OrnamentGroup given the count prop starCount.
InitOf(attached, starCount) ==
    /\ treeState = TREE_SHAPE
    /\ refs = attached
    /\ elapsedTime = 0
    /\ toggles = 0
    /\ nanFrames = 0
    /\ data = [p \in Pops |-> IF p = OrnStar THEN ConstructCount(p, starCount)
                                             ELSE Construct(p)]
    /\ progress = [p \in Pops |-> InitialProgress]
    /\ velocity = [p \in Pops |-> 0]
    /\ uTime = [p \in ShaderPops |-> 0]
    /\ matrix = [p \in InstancedPops |->
                    [l \in Layers(p) |->
                        [i \in 1..(IF p = OrnStar THEN starCount ELSE EntityCount) |->
                            ZeroTransform]]]
    /\ star = [position |-> <<0, 0, 0>>, rotation |-> <<0, 0, 0>>, velX |-> 0, velZ |-> 0]

\* The scene as App mounts it: every ref attached by the commit, the counts
\* the module constants.
Init == InitOf(AllRefs, EntityCount)

\* A variant of Toggle: the click also resets every population's progress to
\* the end it leaves.
ToggleResetting ==
    /\ toggles < MaxToggles
    /\ toggles' = toggles + 1
    /\ treeState' = Flip(treeState)
    /\ progress' = [p \in Pops |-> Goal(treeState)]
    /\ velocity' = [p \in Pops |-> 0]
    /\ UNCHANGED <<refs, elapsedTime, nanFrames, data, uTime, matrix, star>>

\* The button's onClick: setTreeState with the flipped value.
Toggle ==
    /\ toggles < MaxToggles
    /\ toggles' = toggles + 1
    /\ treeState' = Flip(treeState)
    /\ UNCHANGED <<refs, elapsedTime, nanFrames, data,
                   progress, velocity, uTime, matrix, star>>

\* Everything the useFrame callbacks read and write, as one value.
StageOf(prog, vel, time, mat, mesh, items) ==
    [progress |-> prog, velocity |-> vel, uTime |-> time,
     matrix |-> mat, star |-> mesh, data |-> items]
Stage == StageOf(progress, velocity, uTime, matrix, star, data)

\* A variant of OwnProgress: the rigid populations damping from the foliage's
\* uniform instead of their own ref.
OwnProgressShared(p, s) ==
    IF p \in RigidPops THEN s.progress[Foliage] ELSE s.progress[p]

\* The progress a callback damps: its own targetProgress.current /
\* progress.current / uniforms.uProgress.value.
OwnProgress(p, s) == s.progress[p]

\* The useFrame callback of population p, run on stage s with the `state` prop,
\* the attached refs, the clock and deltaTime: the stage it leaves.
Callback(p, s, state, attached, time, delta) ==
    LET d      == DampProgress(p, OwnProgress(p, s), s.velocity[p], state, delta)
        damped == [s EXCEPT !.progress[p] = d.cur, !.velocity[p] = d.vel]
    IN  IF p \in ShaderPops THEN [damped EXCEPT !.uTime[p] = time]
        ELSE IF ~Runs(p, attached) THEN s
        ELSE IF p = TopStar
        THEN [damped EXCEPT !.star = StarFrame(@, s.data[p][1], d.cur, time, delta)]
        ELSE [damped EXCEPT
                !.matrix[p] = WriteMatrices(p, @, s.data[p], attached, d.cur, time),
                !.data[p] = FrameItems(p, @, d.cur)]

\* The callbacks run one after the other in the given order.
RECURSIVE RunCallbacks(_, _, _, _, _, _)
RunCallbacks(order, s, state, attached, time, delta) ==
    IF order = <<>> THEN s
    ELSE RunCallbacks(Tail(order), Callback(Head(order), s, state, attached, time, delta),
                      state, attached, time, delta)

\* The order in which the host calls the callbacks: the order the components
\* subscribed in, which is the order Scene and Ornaments mount them in.
MountOrder == <<Foliage, TopStar, OrnSphereSilver, OrnSpherePink, OrnBox, OrnStar,
               OrnDiamond, Gifts, Particles>>

\* One rendered frame at clock time `time`: the host calls every useFrame
\* callback with the same clock and deltaTime.
FrameWith(time, delta) ==
    \E s \in {RunCallbacks(MountOrder, Stage, treeState, refs, time, delta)} :
        /\ progress' = s.progress
        /\ velocity' = s.velocity
        /\ uTime' = s.uTime
        /\ matrix' = s.matrix
        /\ star' = s.star
        /\ data' = s.data
        /\ UNCHANGED <<treeState, refs, toggles>>

\* The frames of BigDelta and of TinyDelta so far, read off the clock.
BigFrames  == elapsedTime \div BigDelta
TinyFrames == (elapsedTime % BigDelta) \div TinyDelta

\* A frame with the finite deltaTime delta; the clock advances by it.
FiniteFrame(delta) ==
    /\ nanFrames = 0
    /\ elapsedTime' = elapsedTime + delta
    /\ FrameWith(elapsedTime + delta, delta)
    /\ UNCHANGED nanFrames

Frame ==
    \E delta \in Deltas :
        /\ delta = TinyDelta => TinyFrames < MaxTinyFrames
        /\ delta = BigDelta => BigFrames < MaxBigFrames
        /\ FiniteFrame(delta)

\* A frame whose deltaTime is not finite (a stalled host clock); the clock
\* reading itself stays finite.
FrameNaN ==
    /\ nanFrames < MaxNaNFrames
    /\ nanFrames' = nanFrames + 1
    /\ FrameWith(elapsedTime, NaN)
    /\ UNCHANGED elapsedTime

Next == Toggle \/ Frame \/ FrameNaN

Spec == Init /\ [][Next]_vars

\* ------------------------------------------------------------------------
\* Frames that keep arriving: the render loop delivers a BigDelta frame
\* whenever it can, for LiveFrames frames
\* ------------------------------------------------------------------------

LiveFrames == 8

LiveFrame ==
    /\ BigFrames < LiveFrames
    /\ FiniteFrame(BigDelta)

LiveNext == Toggle \/ LiveFrame

\* The clock's part of LiveFrame: LiveFrame is enabled exactly when Tick is,
\* and the steps that advance the clock are the LiveFrame steps.
Tick ==
    /\ nanFrames = 0
    /\ BigFrames < LiveFrames
    /\ elapsedTime' = elapsedTime + BigDelta

\* The render loop is weakly fair: while a frame can come, one does.
LiveSpec == Init /\ [][LiveNext]_vars /\ WF_elapsedTime(Tick)

\* ------------------------------------------------------------------------
\* A display that delivers every frame with the same small deltaTime
\* ------------------------------------------------------------------------

\* The small deltaTime (0.1 s) and the frames of it in one run.
SmallDelta     == 1000
MaxSmallFrames == 12

SmallFrames == elapsedTime \div SmallDelta

SmallFrame ==
    /\ SmallFrames < MaxSmallFrames
    /\ FiniteFrame(SmallDelta)

SmallNext == Toggle \/ SmallFrame

SmallSpec == Init /\ [][SmallNext]_vars

\* ------------------------------------------------------------------------
\* The components under props and refs other than App's: an OrnamentGroup
\* given another count, a `state` prop outside the enum, and frames that
\* arrive while refs are not attached
\* ------------------------------------------------------------------------

\* The count prop of the star OrnamentGroup: 0 up to EntityCount.  (A negative
\* count builds no item either, but three's InstancedMesh then fails to
\* allocate its buffer; that is outside this model.)
Counts == 0..EntityCount

CountInit == \E n \in Counts : InitOf(AllRefs, n)

CountSpec == CountInit /\ [][LiveNext]_vars

\* A value of the `state` prop that is neither member of the enum.
INVALID == "INVALID"

\* The collaborator that owns the toggle hands down a value outside the enum.
ForeignState ==
    /\ toggles < MaxToggles
    /\ toggles' = toggles + 1
    /\ treeState' = INVALID
    /\ UNCHANGED <<refs, elapsedTime, nanFrames, data,
                   progress, velocity, uTime, matrix, star>>

PropNext == Toggle \/ ForeignState \/ LiveFrame

PropSpec == Init /\ [][PropNext]_vars

\* The refs that are still detached when the first frames arrive: none, one
\* of BottomGifts' meshes, or the main or an extra mesh of an OrnamentGroup,
\* or TopStar's mesh.
DetachedCases ==
    {{}, {<<Gifts, "mesh">>}, {<<Gifts, "ribbon1">>}, {<<Gifts, "ribbon2">>},
     {<<OrnBox, "mesh">>}, {<<OrnBox, "extra0">>}, {<<OrnStar, "mesh">>},
     {<<TopStar, "mesh">>}}

MountInit == \E detached \in DetachedCases : InitOf(AllRefs \ detached, EntityCount)

\* A commit attaches the refs that were detached.
Attach ==
    /\ refs # AllRefs
    /\ refs' = AllRefs
    /\ UNCHANGED <<treeState, elapsedTime, toggles, nanFrames, data,
                   progress, velocity, uTime, matrix, star>>

\* Frames of BigDelta in a run that starts with refs detached.
MountFrames == 3

MountFrame ==
    /\ BigFrames < MountFrames
    /\ FiniteFrame(BigDelta)

MountNext == Toggle \/ Attach \/ MountFrame

MountSpec == MountInit /\ [][MountNext]_vars

\* ------------------------------------------------------------------------
\* Steps of a behaviour, told apart by what they change
\* ------------------------------------------------------------------------

\* A step in which the useFrame callbacks ran (a click changes `toggles`).
FrameStep == toggles' = toggles

\* A frame with a finite deltaTime, and one with a positive finite deltaTime.
FiniteFrameStep   == FrameStep /\ nanFrames' = nanFrames
PositiveFrameStep == FiniteFrameStep /\ elapsedTime' > elapsedTime

\* A frame with a non-finite deltaTime.
NaNFrameStep == nanFrames' > nanFrames

\* ------------------------------------------------------------------------
\* Progress stays in [0, 1]
\* ------------------------------------------------------------------------

\* C1: after any sequence of toggles and frames with finite non-negative
\* deltaTime, every population's progress lies in [0, 1].
C1_ProgressInUnitInterval ==
    nanFrames = 0 => \A p \in Pops : progress[p] >= 0 /\ progress[p] <= PUnit

\* ------------------------------------------------------------------------
\* Monotone approach to the goal
\* ------------------------------------------------------------------------

\* Population p's progress after the step lies between its progress before
\* the step and the goal (both included).
Toward(p) ==
    IF Goal(treeState) = PUnit
    THEN progress[p] <= progress'[p] /\ progress'[p] <= PUnit
    ELSE progress'[p] <= progress[p] /\ progress'[p] >= 0

\* Population p's progress after the step lies between its progress before
\* the step and the goal, whichever side of the goal it started on.
Between(p) ==
    \/ progress[p] <= progress'[p] /\ progress'[p] <= Goal(treeState)
    \/ Goal(treeState) <= progress'[p] /\ progress'[p] <= progress[p]

\* Population p's progress is a number and its damping velocity does not
\* point away from the goal.
Aligned(p) ==
    /\ ~IsNaN(progress[p]) /\ ~IsNaN(velocity[p])
    /\ IF progress[p] <= Goal(treeState) THEN velocity[p] >= 0 ELSE velocity[p] <= 0

\* The deltaTime of a frame step.
StepDelta == IF NaNFrameStep THEN NaN ELSE elapsedTime' - elapsedTime

\* Population p's progress after the step is not on the other side of the
\* goal than before it.
NotPastGoal(p) ==
    /\ progress[p] <= Goal(treeState) => progress'[p] <= Goal(treeState)
    /\ progress[p] >= Goal(treeState) => progress'[p] >= Goal(treeState)

\* How far the step moves population p's progress away from the goal (negative
\* when it moves toward it).
AwayFromGoal(p) ==
    IF progress[p] <= Goal(treeState) THEN progress[p] - progress'[p]
    ELSE progress'[p] - progress[p]

\* C2 as stated: in a run of frames of one small positive deltaTime, every
\* frame moves every population's progress toward the goal or leaves it, and
\* does not carry it past the goal.
C2_MonotoneTowardGoal ==
    [][PositiveFrameStep => \A p \in Pops : Toward(p)]_vars

\* C2, amended: in such a run no frame carries a progress past the goal; a
\* frame moves a progress toward the goal or leaves it whenever the damping
\* velocity carried over from the frames before does not point away from the
\* goal; and when it does (the goal changed in mid-morph) the frame moves the
\* progress away from the goal by at most |velocity| * deltaTime.
C2_NeverPastGoalMonotoneWhenAligned ==
    [][PositiveFrameStep =>
          \A p \in Pops :
              /\ NotPastGoal(p)
              /\ Aligned(p) => Between(p)
              /\ AwayFromGoal(p) <= MulT(Abs(velocity[p]), StepDelta) + 1]_vars

\* A click came in mid-morph and small frames went on: every population's
\* progress first kept rising, and its velocity has now turned to the new
\* goal.
C2_Witness ==
    /\ treeState = SCATTERED /\ toggles = 1 /\ SmallFrames >= 10
    /\ \A p \in Pops :
          /\ progress[p] > 0 /\ progress[p] < PUnit /\ velocity[p] < 0

\* ------------------------------------------------------------------------
\* What the last frame wrote
\* ------------------------------------------------------------------------

Entities(p) == DOMAIN data[p]

\* The positions a frame computed for entity i of population p, given what it
\* left in the uniforms, the instance matrices and TopStar's mesh: one per
\* layer for an instanced population, the shader's for a shader one.
PositionsOf(p, i, prog, time, mat, mesh) ==
    IF p \in ShaderPops THEN ShaderVertices(p, data[p][i], prog[p], time[p])
    ELSE IF p = TopStar THEN {mesh.position}
    ELSE {mat[p][l][i].position : l \in Layers(p)}

\* Those of the last frame, and those of the frame a step takes.
Positions(p, i)    == PositionsOf(p, i, progress, uTime, matrix, star)
NewPositions(p, i) == PositionsOf(p, i, progress', uTime', matrix', star')

\* The rotations the last frame wrote for entity i of instanced population p.
Rotations(p, i) == {matrix[p][l][i].rotation : l \in Layers(p)}

\* |x| <= r for a number x.
Within(x, r) == ~IsNaN(x) /\ Abs(x) <= r

\* Every component of v within r of w's.
Near(v, w, r) == \A c \in 1..3 : ~IsNaN(v[c]) /\ Abs(v[c] - w[c]) <= r

\* t >= c for a threshold c in hundredths.
AtLeast(t, hundredths) == ~IsNaN(t) /\ t >= (PUnit \div 100) * hundredths

\* ------------------------------------------------------------------------
\* Convergence
\* ------------------------------------------------------------------------

\* Frames of BigDelta after which a morph has settled, and how far from its
\* assembled position (in 1/GUnit) a settled rigid entity may be.
SettleFrames == 4
PosEps       == 500

\* Every population's progress is within 0.001 of goal g; at the assembled
\* end every rigid entity is within PosEps of its assembled position.
Settled(g) ==
    /\ \A p \in Pops : ~IsNaN(progress[p]) /\ Abs(progress[p] - g) <= PUnit \div 1000
    /\ g = PUnit =>
          \A p \in RigidPops : \A i \in Entities(p) : \A v \in Positions(p, i) :
              Near(v, data[p][i].treePos, PosEps)

\* C3: while the toggle stays at one end and frames with a positive deltaTime
\* keep arriving (SettleFrames of them are still to come), every population's
\* progress comes within 0.001 of that end's goal, with every rigid entity
\* within PosEps of its assembled position at the assembled end; and further
\* frames keep it so.
C3_SettlesAndStays ==
    /\ (treeState = TREE_SHAPE /\ BigFrames + SettleFrames <= LiveFrames)
          ~> (Settled(PUnit) \/ treeState = SCATTERED)
    /\ (treeState = SCATTERED /\ BigFrames + SettleFrames <= LiveFrames)
          ~> (Settled(0) \/ treeState = TREE_SHAPE)
    /\ [][Settled(Goal(treeState)) /\ FrameStep => Settled(Goal(treeState))']_vars

\* The scene assembled and at rest after two clicks.
C3_Witness ==
    /\ treeState = TREE_SHAPE /\ toggles = 2 /\ Settled(PUnit)
    /\ \A p \in Pops : progress[p] = PUnit

\* ------------------------------------------------------------------------
\* Non-finite deltaTime
\* ------------------------------------------------------------------------

\* No NaN in what the frame wrote: instance matrices, TopStar's transform and
\* the positions the shaders compute from the uniforms.
NoNaNWritten ==
    /\ \A p \in InstancedPops : \A l \in Layers(p) : \A i \in Entities(p) :
          ~TransformHasNaN(matrix[p][l][i])
    /\ ~VecHasNaN(star.position) /\ ~VecHasNaN(star.rotation)
    /\ \A p \in ShaderPops : \A i \in Entities(p) : \A v \in Positions(p, i) :
          ~VecHasNaN(v)

\* C4: a frame with a NaN deltaTime leaves every population's progress as it
\* was and writes no NaN into a position or transform.
C4_NaNDeltaIsNoUpdate ==
    [][NaNFrameStep => progress' = progress /\ NoNaNWritten']_vars

\* ------------------------------------------------------------------------
\* Toggling
\* ------------------------------------------------------------------------

\* C5: a toggle leaves every population's progress (and damping velocity) as
\* it was, and every frame damps from the progress held before it.
C5_ToggleKeepsProgress ==
    [][/\ treeState' # treeState => progress' = progress /\ velocity' = velocity
       /\ FrameStep =>
            \A p \in Pops :
                progress'[p] = Damp(progress[p], velocity[p], Goal(treeState),
                                    SmoothTime(p), StepDelta, PK).cur]_vars

\* A toggle that arrived in the middle of the opening morph.
C5_Witness ==
    /\ treeState = SCATTERED /\ toggles = 1
    /\ \A p \in Pops : progress[p] > 0 /\ progress[p] < PUnit /\ velocity[p] > 0

\* ------------------------------------------------------------------------
\* Rest
\* ------------------------------------------------------------------------

\* C6: a frame (of any deltaTime) leaves a progress that equals the goal
\* unchanged.
C6_IdempotentAtRest ==
    [][FrameStep =>
          \A p \in Pops : progress[p] = Goal(treeState) => progress'[p] = progress[p]]_vars

\* At rest at the scattered end with frames run since the toggle.
C6_Witness ==
    /\ treeState = SCATTERED /\ toggles = 1 /\ elapsedTime > 0
    /\ \A p \in Pops : progress[p] = 0 /\ velocity[p] = 0

\* ------------------------------------------------------------------------
\* Construction
\* ------------------------------------------------------------------------

\* No click and no frame yet.
BeforeFirstFrame ==
    /\ toggles = 0 /\ elapsedTime = 0 /\ nanFrames = 0
    /\ \A p \in InstancedPops : \A l \in Layers(p) : \A i \in Entities(p) :
          matrix[p][l][i] = ZeroTransform

\* C7 as stated: before the first frame every population's progress equals
\* the goal of the initial toggle state.
C7_InitialProgressIsGoal ==
    BeforeFirstFrame => \A p \in Pops : progress[p] = Goal(treeState)

\* C7, amended: every population's progress starts at 0, the scattered value,
\* while the initial toggle state is the assembled one (goal 1).
C7_InitialProgressIsZero ==
    BeforeFirstFrame =>
        /\ Goal(treeState) = PUnit
        /\ \A p \in Pops : progress[p] = 0 /\ velocity[p] = 0

C7_Witness ==
    BeforeFirstFrame /\ treeState = TREE_SHAPE /\ progress[Foliage] = 0

\* ------------------------------------------------------------------------
\* Positions at the two ends
\* ------------------------------------------------------------------------

\* C8 as stated: the position a frame computes for an entity is its scattered
\* position when progress is 0 and its assembled position when progress is 1.
C8_EndpointsExact ==
    [][FrameStep =>
          \A p \in Pops : \A i \in Entities(p) :
              /\ progress'[p] = 0 => NewPositions(p, i) = {data[p][i].scatterPos}
              /\ progress'[p] = PUnit => NewPositions(p, i) = {data[p][i].treePos}]_vars

\* The amplitude of the bobbing an instanced population adds at progress 0.
FloatAmp(p) ==
    CASE p = Gifts   -> 2 * GUnit
      [] p = OrnStar -> 3 * GUnit
      [] p \in OrnamentPops \ {OrnStar} -> 15000

\* Position v of an entity of p computed at progress 0: the scattered position
\* for BottomParticles and TopStar; off it by the bobbing (x and y) for the
\* instanced populations and by the wind and jitter for Foliage.
AtScatteredEnd(p, item, v) ==
    LET s == item.scatterPos
    IN  CASE p \in {Particles, TopStar} -> v = s
          [] p \in InstancedPops ->
                /\ Within(Sub(v[1], s[1]), FloatAmp(p) \div 2)
                /\ Within(Sub(v[2], s[2]), FloatAmp(p))
                /\ v[3] = s[3]
          [] p = Foliage ->
                /\ Within(Sub(v[1], s[1]), 8000)
                /\ Within(Sub(v[2], s[2]), 8500)
                /\ Within(Sub(v[3], s[3]), 8000)

\* Position v of an entity of p computed at progress 1: the assembled position
\* for the rigid populations; above it by the rise (0 to 4 units) for
\* BottomParticles; off it by the wind and jitter for Foliage.
AtAssembledEnd(p, item, v) ==
    LET a == item.treePos
    IN  CASE p \in RigidPops -> v = a
          [] p = Particles ->
                /\ v[1] = a[1] /\ v[3] = a[3]
                /\ ~IsNaN(v[2]) /\ v[2] - a[2] >= 0 /\ v[2] - a[2] < 4 * GUnit
          [] p = Foliage ->
                /\ Within(Sub(v[1], a[1]), 1500)
                /\ Within(Sub(v[2], a[2]), 2000)
                /\ Within(Sub(v[3], a[3]), 1500)

\* C8, amended: at progress 0 and 1 the computed position is the scattered /
\* assembled position plus the population's animation offset, which vanishes
\* only for BottomParticles and TopStar at 0 and for the rigid populations at 1.
C8_EndpointsUpToAnimation ==
    [][FrameStep =>
          \A p \in Pops : \A i \in Entities(p) : \A v \in NewPositions(p, i) :
              /\ progress'[p] = 0 => AtScatteredEnd(p, data[p][i], v)
              /\ progress'[p] = PUnit => AtAssembledEnd(p, data[p][i], v)]_vars

\* Everything assembled: the rigid entities on their assembled positions, a
\* foliage point and a particle off theirs.
C8_Witness ==
    /\ \A p \in Pops : progress[p] = PUnit
    /\ \A p \in RigidPops : \A i \in Entities(p) :
          Positions(p, i) = {data[p][i].treePos}
    /\ \E i \in Entities(Foliage) : data[Foliage][i].treePos \notin Positions(Foliage, i)
    /\ \E i \in Entities(Particles) : data[Particles][i].treePos \notin Positions(Particles, i)

\* ------------------------------------------------------------------------
\* Settle thresholds
\* ------------------------------------------------------------------------

\* The resting orientation of an instanced entity: its fixed yaw alone.
RestingRotation(p, item) ==
    IF p = Gifts THEN <<0, item.rotationY, 0>> ELSE <<0, item.rotation[2], 0>>

\* The interpolation of an entity's two ends at progress t.
OnLerp(item, t) == LerpVectors(item.scatterPos, item.treePos, t)

\* The bobbing of an instanced entity at progress t and clock time: a sine in
\* y and half a cosine at half the rate in x, both of the population's
\* amplitude weighted by 1 - t.
Bob(p, item, t, time) ==
    LET amp  == MulGP(FloatAmp(p), Sub(PUnit, t))
        slow == IF p = Gifts THEN MulG(MulDiv(time, 5, 10), item.speed)
                ELSE MulDiv(MulG(time, item.speed), 5, 10)
    IN  <<MulDiv(MulG(Cos(slow + item.phase), amp), 5, 10),
          MulG(Sin(MulG(time, item.speed) + item.phase), amp)>>

\* The interpolated position with the bobbing added.
Bobbed(p, item, t, time) ==
    LET base == OnLerp(item, t)
        bob  == Bob(p, item, t, time)
    IN  <<Add(base[1], bob[1]), Add(base[2], bob[2]), base[3]>>

\* C9 as stated: in every frame that leaves an instanced population at
\* progress >= 0.99, every entity's written rotation is its resting yaw alone
\* and its written position carries no bobbing.
C9_SettledRotationIsResting ==
    [][FrameStep =>
          \A p \in InstancedPops : \A i \in Entities(p) :
              AtLeast(progress'[p], 99) =>
                  /\ Rotations(p, i)' = {RestingRotation(p, data[p][i])}
                  /\ NewPositions(p, i) = {OnLerp(data[p][i], progress'[p])}]_vars

\* C9, amended: BottomGifts writes the resting yaw alone and the interpolated
\* position without bobbing from progress 0.99 on, and the tumble and the
\* bobbing below it; an OrnamentGroup has no settle threshold: at every
\* progress its position carries the bobbing weighted by 1 - progress, its yaw
\* follows the clock and its other two angles keep their constructed values
\* plus a drift weighted by 1 - progress.
C9_GiftsSettleOrnamentsSpin ==
    [][FrameStep =>
          /\ \A i \in Entities(Gifts) :
                LET item   == data[Gifts][i]
                    t      == progress'[Gifts]
                    tumble == MulGP(MulG(elapsedTime', MulDiv(item.speed, 25, 100)),
                                    Sub(PUnit, t))
                IN  IF Lt(t, 99 * (PUnit \div 100))
                    THEN /\ Rotations(Gifts, i)' =
                               {<<tumble, Add(tumble, item.rotationY), tumble>>}
                         /\ NewPositions(Gifts, i) =
                               {Bobbed(Gifts, item, t, elapsedTime')}
                    ELSE /\ Rotations(Gifts, i)' = {<<0, item.rotationY, 0>>}
                         /\ NewPositions(Gifts, i) = {OnLerp(item, t)}
          /\ \A p \in OrnamentPops : \A i \in Entities(p) :
                LET item == data[p][i]
                    w    == Sub(PUnit, progress'[p])
                    spin == IF p \in {OrnStar, OrnDiamond} THEN 5000 ELSE 1000
                IN  /\ Rotations(p, i)' =
                          {<<Add(item.rotation[1],
                                 MulG(MulGP(MulDiv(elapsedTime', 2, 10), w), item.speed)),
                             item.rotation[2] + MulG(MulG(elapsedTime', spin), item.speed),
                             Add(item.rotation[3], MulGP(MulDiv(elapsedTime', 1, 10), w))>>}
                    /\ NewPositions(p, i) =
                          {Bobbed(p, item, progress'[p], elapsedTime')}]_vars

\* Past 0.99 and short of 1: a gift at its resting yaw on its interpolated
\* position, an ornament off both.
C9_Witness ==
    /\ \A p \in InstancedPops : AtLeast(progress[p], 99) /\ progress[p] < PUnit
    /\ \A i \in Entities(Gifts) :
          /\ Rotations(Gifts, i) = {RestingRotation(Gifts, data[Gifts][i])}
          /\ Positions(Gifts, i) = {OnLerp(data[Gifts][i], progress[Gifts])}
    /\ \A p \in OrnamentPops : \A i \in Entities(p) :
          /\ RestingRotation(p, data[p][i]) \notin Rotations(p, i)
          /\ OnLerp(data[p][i], progress[p]) \notin Positions(p, i)

\* TopStar's tumble at progress t and clock time: rotation.x and rotation.z.
StarTumbleX(t, time) == MulGP(Sin(MulDiv(time, 5, 10)), Sub(PUnit, t))
StarTumbleZ(t, time) == MulGP(Cos(MulDiv(time, 3, 10)), Sub(PUnit, t))

\* TopStar's position is the interpolation of its two ends at its progress.
StarOnLerp ==
    star.position = LerpVectors(data[TopStar][1].scatterPos, data[TopStar][1].treePos,
                                progress[TopStar])

\* C10 as stated: TopStar's position is the interpolation at its progress, and
\* it tumbles below progress 0.99 and holds the resting orientation (no
\* rotation about x and z) from 0.99 on.
C10_TopStarSettlesAtGiftThreshold ==
    [][FrameStep =>
          /\ StarOnLerp'
          /\ Lt(progress'[TopStar], 99 * (PUnit \div 100)) =>
                /\ star'.rotation[1] = StarTumbleX(progress'[TopStar], elapsedTime')
                /\ star'.rotation[3] = StarTumbleZ(progress'[TopStar], elapsedTime')
          /\ AtLeast(progress'[TopStar], 99) =>
                star'.rotation[1] = 0 /\ star'.rotation[3] = 0]_vars

\* C10, amended: TopStar's position is the interpolation at its progress; it
\* tumbles below progress 0.9; from 0.9 on its x and z angles are damped
\* toward 0 (time constant 0.25) from the values they have; its yaw advances
\* by 0.8 rad/s in every frame.
C10_TopStarSettlesAtNineTenths ==
    [][FrameStep =>
          /\ StarOnLerp'
          /\ star'.rotation[2] = Add(star.rotation[2], MulDiv(StepDelta, 8, 10))
          /\ IF Lt(progress'[TopStar], 90 * (PUnit \div 100))
             THEN /\ star'.rotation[1] = StarTumbleX(progress'[TopStar], elapsedTime')
                  /\ star'.rotation[3] = StarTumbleZ(progress'[TopStar], elapsedTime')
             ELSE /\ star'.rotation[1] =
                        Damp(star.rotation[1], star.velX, 0, 250, StepDelta, GK).cur
                  /\ star'.rotation[3] =
                        Damp(star.rotation[3], star.velZ, 0, 250, StepDelta, GK).cur
                  /\ StepDelta \in {TinyDelta, BigDelta} =>
                        /\ Abs(star'.rotation[1]) <= Abs(star.rotation[1])
                        /\ Abs(star'.rotation[3]) <= Abs(star.rotation[3])]_vars

\* TopStar between the two thresholds: past 0.9, short of 0.99, on its
\* interpolated position and not yet upright.
C10_Witness ==
    /\ AtLeast(progress[TopStar], 90) /\ progress[TopStar] < 99 * (PUnit \div 100)
    /\ StarOnLerp
    /\ star.rotation[1] # 0 /\ star.rotation[2] > 0

\* ------------------------------------------------------------------------
\* Construction with a count
\* ------------------------------------------------------------------------

\* C11: no population is ever constructed with zero entities (constructing
\* one with a count of 0 or less fails instead).
C11_NoEmptyPopulation ==
    \A p \in Pops : Entities(p) # {}

\* ------------------------------------------------------------------------
\* A toggle value outside the enum
\* ------------------------------------------------------------------------

\* C12: while the toggle value is neither of the two states, a frame is a
\* no-op on every population's progress (the value is not mapped to a goal).
C12_InvalidStateIsNoOp ==
    [][FrameStep /\ treeState \notin TreeState => progress' = progress]_vars

\* ------------------------------------------------------------------------
\* Entity data is immutable
\* ------------------------------------------------------------------------

\* C13: no frame and no toggle changes any entity's data (positions,
\* randomness, speed, scale, phase, rest rotation) or a population's entity
\* count, and the callback of a shader population changes nothing but its
\* uTime uniform (set to the clock), its progress uniform and that uniform's
\* damping velocity.
C13_EntityDataImmutable ==
    [][/\ data' = data
       /\ \A p \in InstancedPops : \A l \in Layers(p) :
             DOMAIN matrix'[p][l] = DOMAIN data[p]
       /\ FrameStep =>
             \A p \in ShaderPops :
                 Callback(p, Stage, treeState, refs, elapsedTime', StepDelta)
                     = [Stage EXCEPT !.progress[p] = progress'[p],
                                     !.velocity[p] = velocity'[p],
                                     !.uTime[p] = elapsedTime']]_vars

\* Two clicks and some frames on, the entity data is as constructed.
C13_Witness ==
    /\ toggles = 2 /\ BigFrames >= 2
    /\ data = [p \in Pops |-> Construct(p)]
    /\ \A p \in ShaderPops : uTime[p] = elapsedTime /\ progress[p] > 0
    /\ \A p \in InstancedPops : \A i \in Entities(p) :
          matrix[p]["mesh"][i].position # data[p][i].scatterPos

\* ------------------------------------------------------------------------
\* Layers
\* ------------------------------------------------------------------------

\* Whether population p's callback gets past its guard in this step.
GuardPasses(p) ==
    IF p = Gifts THEN \A l \in Layers(Gifts) : <<Gifts, l>> \in refs
    ELSE <<p, "mesh">> \in refs

\* C14: after every frame in which a layered population's callback ran, each
\* of its layers' buffers (of the meshes that exist, i.e. whose ref is
\* attached) holds at every index the transform the main mesh's buffer holds;
\* BottomGifts' three buffers are equal at all times.
C14_LayersCoupled ==
    [][/\ \A l \in Layers(Gifts) : matrix'[Gifts][l] = matrix'[Gifts]["mesh"]
       /\ FrameStep /\ refs' = refs /\ GuardPasses(OrnBox) =>
             \A l \in Layers(OrnBox) : \A i \in Entities(OrnBox) :
                 <<OrnBox, l>> \in refs =>
                     matrix'[OrnBox][l][i] = matrix'[OrnBox]["mesh"][i]]_vars

\* Frames ran: the gifts' and the boxes' layers hold the same written
\* transforms, with one extra layer of the boxes not attached.
C14_Witness ==
    /\ <<OrnBox, "extra0">> \notin refs
    /\ \A i \in Entities(OrnBox) :
          /\ matrix[OrnBox]["mesh"][i] # ZeroTransform
          /\ matrix[OrnBox]["extra1"][i] = matrix[OrnBox]["mesh"][i]
    /\ \A i \in Entities(Gifts) : \A l \in Layers(Gifts) :
          /\ matrix[Gifts][l][i] # ZeroTransform
          /\ matrix[Gifts][l][i] = matrix[Gifts]["mesh"][i]

\* ------------------------------------------------------------------------
\* Independence of the populations
\* ------------------------------------------------------------------------

\* The sequence seq backwards, and seq with its k-th and (k+1)-th elements
\* exchanged.
Reverse(seq) == [k \in 1..Len(seq) |-> seq[Len(seq) + 1 - k]]
SwapAt(seq, k) ==
    [j \in 1..Len(seq) |-> IF j = k THEN seq[k + 1] ELSE IF j = k + 1 THEN seq[k] ELSE seq[j]]

\* Other orders the callbacks could run in: the mount order backwards and
\* with two neighbours exchanged (the exchanges generate every order).
Orders ==
    {Reverse(MountOrder)} \cup {SwapAt(MountOrder, k) : k \in 1..(Len(MountOrder) - 1)}

\* The stage a step leaves.
NewStage == StageOf(progress', velocity', uTime', matrix', star', data')

\* C15: what a frame leaves (every population's progress, velocity, uniforms
\* and buffers) is what the callbacks leave when run in any other order.
C15_OrderIndependent ==
    [][FrameStep /\ refs' = refs =>
          \A order \in Orders :
              RunCallbacks(order, Stage, treeState, refs, elapsedTime', StepDelta)
                  = NewStage]_vars

\* Mid-morph after a click: every population has its own progress under way.
C15_Witness ==
    /\ toggles = 1 /\ elapsedTime > 0
    /\ \A p \in Pops : progress[p] > 0 /\ progress[p] < PUnit
    /\ progress[Foliage] # progress[Gifts] /\ progress[Gifts] # progress[TopStar]
    /\ star.position # <<0, 0, 0>>

\* ------------------------------------------------------------------------
\* Marking the buffers dirty
\* ------------------------------------------------------------------------

\* The buffer operations population p's callback performs in this step.
StepOps(p) ==
    IF GuardPasses(p) THEN FrameOps(WrittenLayers(p, refs), Len(data[p]), 1) ELSE <<>>

\* In ops, layer l is marked dirty exactly once, each of the given entities is
\* written exactly once, and every write precedes the mark.
MarkedOnceAfterWrites(ops, l, entities) ==
    /\ Cardinality({k \in DOMAIN ops : ops[k].op = "needsUpdate" /\ ops[k].layer = l}) = 1
    /\ \A i \in entities :
          Cardinality({k \in DOMAIN ops :
                          ops[k] = [op |-> "setMatrixAt", layer |-> l, index |-> i]}) = 1
    /\ \A k, j \in DOMAIN ops :
          (ops[k].layer = l /\ ops[j].layer = l
             /\ ops[k].op = "setMatrixAt" /\ ops[j].op = "needsUpdate") => k < j

\* C16: in every frame of an instanced population, whatever its entity count
\* (0 included), each of its buffers is marked dirty exactly once, after the
\* transforms of all its entities have been written; the buffers the frame
\* leaves are those the writes produce.
C16_DirtyOnceAfterWrites ==
    [][FrameStep =>
          \A p \in InstancedPops :
              LET ops == StepOps(p)
                  tr  == [i \in Entities(p) |->
                             EntityTransform(p, data[p][i], progress'[p], elapsedTime')]
              IN  /\ matrix'[p] = Replay(ops, tr, matrix[p])
                  /\ \A l \in Layers(p) : MarkedOnceAfterWrites(ops, l, Entities(p))]_vars

\* Frames ran with a star group of no entity next to populated groups.
C16_Witness ==
    /\ Entities(OrnStar) = {} /\ elapsedTime > 0
    /\ Cardinality(Entities(Gifts)) > 1
    /\ \A p \in {Gifts, OrnBox} : \A l \in Layers(p) : \A i \in Entities(p) :
          matrix[p][l][i] # ZeroTransform

\* ------------------------------------------------------------------------
\* Frames with deltaTime = 0
\* ------------------------------------------------------------------------

\* A frame with deltaTime = 0.
ZeroFrameStep == FiniteFrameStep /\ elapsedTime' = elapsedTime

\* C17 as stated: a frame with deltaTime = 0 leaves every progress unchanged.
C17_ZeroDeltaIsNoOp ==
    [][ZeroFrameStep => progress' = progress]_vars

\* C17, amended: a frame with deltaTime = 0 sets a progress that is within
\* 0.001 of the goal to the goal, leaves any other progress unchanged, and
\* leaves the damping velocities unchanged.
C17_ZeroDeltaSnapsWithinEps ==
    [][ZeroFrameStep =>
          /\ velocity' = velocity
          /\ \A p \in Pops :
                progress'[p] = IF Abs(progress[p] - Goal(treeState)) <= PUnit \div 1000
                               THEN Goal(treeState)
                               ELSE progress[p]]_vars

\* A frame with deltaTime = 0 has set BottomGifts' progress to the goal (three
\* frames of BigDelta leave it short of 1) while the others are still under
\* way.
C17_Witness ==
    /\ toggles = 0 /\ BigFrames = 3 /\ TinyFrames = 0 /\ nanFrames = 0
    /\ progress[Gifts] = PUnit /\ velocity[Gifts] > 0
    /\ progress[Foliage] < PUnit /\ progress[Foliage] > 0

\* ------------------------------------------------------------------------
\* The scale pulse
\* ------------------------------------------------------------------------

\* The scales a step writes for entity i of instanced population p.
NewScales(p, i) == {matrix'[p][l][i].scale : l \in Layers(p)}

\* Scale sc is the base scale times (mid + amp * sin(freq * time + phase)),
\* mid and amp in 1/GUnit, and lies between mid - amp and mid + amp times the
\* base scale (up to the last digit).
Pulses(sc, item, time, mid, amp, freq) ==
    /\ sc = MulG(item.scale, mid + MulDiv(Sin(freq * time + item.phase), amp, GUnit))
    /\ sc + 1 >= MulG(item.scale, mid - amp)
    /\ sc <= MulG(item.scale, mid + amp)

\* C18 as stated: every frame writes, for every entity of every instanced
\* population, the base scale times 0.95 + 0.05 sin(time + phase), a scale
\* between 0.90 and 1.00 times the base scale.
C18_AllBreatheAlike ==
    [][FrameStep =>
          \A p \in InstancedPops : \A i \in Entities(p) : \A sc \in NewScales(p, i) :
              Pulses(sc, data[p][i], elapsedTime', 9500, 500, 1)]_vars

\* C18, amended: that is BottomGifts' pulse; an OrnamentGroup writes the base
\* scale times 0.85 + 0.15 sin(2 time + phase), between 0.70 and 1.00 times
\* the base scale; both at every progress.
C18_GiftsAndOrnamentsPulse ==
    [][FrameStep =>
          /\ \A i \in Entities(Gifts) : \A sc \in NewScales(Gifts, i) :
                Pulses(sc, data[Gifts][i], elapsedTime', 9500, 500, 1)
          /\ \A p \in OrnamentPops : \A i \in Entities(p) : \A sc \in NewScales(p, i) :
                Pulses(sc, data[p][i], elapsedTime', 8500, 1500, 2)]_vars

\* A frame has left an ornament below 0.90 of its base scale, and every gift
\* within 0.90 .. 1.00 of its own.
C18_Witness ==
    /\ \E p \in OrnamentPops : \E i \in Entities(p) :
          /\ matrix[p]["mesh"][i].scale > 0
          /\ 10 * matrix[p]["mesh"][i].scale < 9 * data[p][i].scale
    /\ \A i \in Entities(Gifts) :
          /\ 10 * matrix[Gifts]["mesh"][i].scale >= 9 * data[Gifts][i].scale - 10
          /\ matrix[Gifts]["mesh"][i].scale <= data[Gifts][i].scale

\* ------------------------------------------------------------------------
\* Frames without a mesh
\* ------------------------------------------------------------------------

\* C19: a frame in which a rigid population's guard fails (BottomGifts: any
\* of its three meshes detached; OrnamentGroup, TopStar: the main mesh
\* detached) leaves that population's progress, damping velocity and buffers
\* as they were; a frame in which it passes damps the progress and writes the
\* main mesh's transforms at the new progress.
C19_GuardedFrameIsSkipped ==
    [][FrameStep /\ refs' = refs =>
          \A p \in RigidPops :
              IF GuardPasses(p)
              THEN /\ progress'[p] = Damp(progress[p], velocity[p], Goal(treeState),
                                          SmoothTime(p), StepDelta, PK).cur
                   /\ p = TopStar => StarOnLerp'
                   /\ p \in InstancedPops =>
                        \A i \in Entities(p) :
                            matrix'[p]["mesh"][i] =
                                EntityTransform(p, data[p][i], progress'[p], elapsedTime')
              ELSE /\ progress'[p] = progress[p]
                   /\ velocity'[p] = velocity[p]
                   /\ p = TopStar => star' = star
                   /\ p \in InstancedPops => matrix'[p] = matrix[p]]_vars

\* Frames ran with one ribbon of BottomGifts detached: its progress and
\* buffers are as constructed, while the other populations are under way.
C19_Witness ==
    /\ <<Gifts, "ribbon1">> \notin refs /\ <<Gifts, "mesh">> \in refs
    /\ BigFrames >= 2
    /\ progress[Gifts] = 0 /\ velocity[Gifts] = 0
    /\ \A l \in Layers(Gifts) : \A i \in Entities(Gifts) : matrix[Gifts][l][i] = ZeroTransform
    /\ progress[OrnBox] > 0 /\ progress[TopStar] > 0

\* ------------------------------------------------------------------------
\* Populations in step
\* ------------------------------------------------------------------------

\* The populations that damp with the time constant 1.2.
SameConstantPops == OrnamentPops \cup {TopStar, Particles}

\* C20: with every ref attached, the populations that share the time
\* constant 1.2 hold the same progress (and damping velocity) in every state,
\* and every frame damps every population toward the same goal: 1 if the
\* toggle is at the assembled state, 0 otherwise.
C20_SameConstantSameProgress ==
    /\ [](refs = AllRefs =>
            \A p, q \in SameConstantPops :
                progress[p] = progress[q] /\ velocity[p] = velocity[q])
    /\ [][FrameStep =>
            \A p \in Pops :
                LET goal == IF treeState = TREE_SHAPE THEN PUnit ELSE 0
                    d    == Damp(progress[p], velocity[p], goal, SmoothTime(p), StepDelta, PK)
                IN  progress'[p] = d.cur /\ velocity'[p] = d.vel]_vars

\* After two clicks and frames of both lengths the four populations are in
\* step in mid-morph, apart from BottomGifts and Foliage.
C20_Witness ==
    /\ toggles = 2 /\ TinyFrames = 1 /\ BigFrames >= 1 /\ nanFrames = 0
    /\ \A p \in SameConstantPops :
          /\ progress[p] = progress[TopStar] /\ velocity[p] = velocity[TopStar]
          /\ progress[p] > 0 /\ progress[p] < PUnit
    /\ progress[Gifts] # progress[TopStar] /\ progress[Foliage] # progress[TopStar]

====
